---- MODULE Spec2Model ----
(***************************************************************************)
(* mytable: typed fixed-layout records (Struct) stored as fixed-size       *)
(* blocks of a flat binary file (Table), with the field codecs of          *)
(* mytable/fields.py.  The schema is the Person schema of tests.py:        *)
(*     id = Uint64(default=0), name = Varchar(32, default=""),             *)
(*     age = Uint32(default=0)                                             *)
(*                                                                         *)
(* Representation of Python values:                                        *)
(*   - bytes:  a sequence of numbers 0..255;                               *)
(*   - str:    a sequence of Unicode code points;                          *)
(*   - int:    [neg |-> BOOLEAN, d |-> big-endian base-256 digits without  *)
(*             leading zeros] (Python integers are unbounded, and a        *)
(*             Uint64 does not fit a machine integer of the checker);      *)
(*   - None:   Absent; any other value x handed to a setter is Val(x).     *)
(* Indices, sizes and file offsets are plain naturals.                     *)
(*                                                                         *)
(* Table keeps one buffered handle ('rb+') on the file.  Every seek and   *)
(* every read on it flushes the write it buffered, and blocks are far      *)
(* smaller than its buffer, so at most one write is pending: the last one. *)
(* file is the content as the handle reads it (the pending write           *)
(* included); st_size is the length os.fstat reports, which lacks the      *)
(* pending write.                                                          *)
(***************************************************************************)
EXTENDS Integers, Sequences, FiniteSets, TLC

VARIABLES
    file,   \* content of the backing file: a sequence of bytes
    st_size, \* os.fstat(file.fileno()).st_size: the length already flushed
    pos,    \* position of the one file handle Table keeps open
    rec,    \* the record object the caller holds: [id, name, age]
    ret,    \* outcome of the last call: returned value or raised error
    it,     \* the one lazy sequence (generator) the caller holds
    writers \* other processes bound to the same file, each inside an insert()

vars == <<file, st_size, pos, rec, ret, it, writers>>

----------------------------------------------------------------------------
(* Bounds of the model *)

MaxBlocks == 2     \* insert() is called only while size() < MaxBlocks
MaxN == 3          \* largest store drawn for the searches
MaxKey == 2        \* keys of the drawn stores are 1..MaxKey
MaxIdx == 2        \* largest block index given to Table.get and Table.update

(* The schema of tests.py *)
NameLen == 32

Min(a, b) == IF a < b THEN a ELSE b
Max(a, b) == IF a > b THEN a ELSE b

----------------------------------------------------------------------------
(* Python integers *)

RECURSIVE Digits(_)
Digits(n) == IF n = 0 THEN <<>> ELSE Append(Digits(n \div 256), (n % 256))

\* the Python integer of a natural / of the negation of a natural
PyInt(n) == [neg |-> FALSE, d |-> Digits(n)]
PyNeg(n) == [neg |-> n > 0, d |-> Digits(n)]
Zero == PyInt(0)

RECURSIVE DigitsVal(_)
DigitsVal(d) ==
    IF d = <<>> THEN 0 ELSE DigitsVal(SubSeq(d, 1, Len(d) - 1)) * 256 + d[Len(d)]

\* digit strings of at most 3 digits stand for naturals below 2^24
IsSmall(v) == ~v.neg /\ Len(v.d) <= 3
SmallVal(v) == DigitsVal(v.d)

RECURSIVE LexLess(_, _)
LexLess(a, b) ==
    IF a = <<>> THEN FALSE
    ELSE IF a[1] # b[1] THEN a[1] < b[1]
    ELSE LexLess(Tail(a), Tail(b))

MagLess(a, b) == Len(a) < Len(b) \/ (Len(a) = Len(b) /\ LexLess(a, b))

\* a < b on Python integers
PyLess(a, b) ==
    IF a.neg /\ ~b.neg THEN TRUE
    ELSE IF ~a.neg /\ b.neg THEN FALSE
    ELSE IF a.neg THEN MagLess(b.d, a.d)
    ELSE MagLess(a.d, b.d)

\* a <= n for a Python integer a and a natural n below 2^24
PyLeqNat(a, n) == a.neg \/ (IsSmall(a) /\ SmallVal(a) <= n)

StripZeros(b) ==
    LET nz == {i \in 1..Len(b) : b[i] # 0}
    IN IF nz = {} THEN <<>>
       ELSE SubSeq(b, CHOOSE i \in nz : \A j \in nz : i <= j, Len(b))

Zeros(n) == [i \in 1..n |-> 0]

----------------------------------------------------------------------------
(* fields.py: results are [err |-> "none", v |-> value] or [err |-> kind] *)

Ok(x) == [err |-> "none", v |-> x]
Raise(kind) == [err |-> kind, v |-> <<>>]

Absent == [none |-> TRUE, v |-> <<>>]
Val(x) == [none |-> FALSE, v |-> x]

\* BaseField.validate
BaseField_validate(pv) == IF pv.none THEN "ValidationError" ELSE "none"

\* Varchar.validate: len() counts characters
Varchar_validate(pv) ==
    IF BaseField_validate(pv) # "none" THEN BaseField_validate(pv)
    ELSE IF Len(pv.v) > NameLen THEN "TooLongError"
    ELSE "none"

Varchar_sizeof == NameLen
Uint64_sizeof == 8
Uint32_sizeof == 4

\* struct.pack without its range check: the low n bytes of the magnitude are
\* packed and nothing is raised
PackUnsignedWrap(value, n) ==
    Ok(IF Len(value.d) > n
       THEN SubSeq(value.d, Len(value.d) - n + 1, Len(value.d))
       ELSE Zeros(n - Len(value.d)) \o value.d)

\* struct.pack('>Q'/'>I', value): big-endian, struct.error outside the range
PackUnsigned(value, n) ==
    IF value.neg \/ Len(value.d) > n THEN Raise("struct.error")
    ELSE Ok(Zeros(n - Len(value.d)) \o value.d)

\* struct.unpack('>Q'/'>I', block)[0]: the buffer must have exactly n bytes
UnpackUnsigned(block, n) ==
    IF Len(block) # n THEN Raise("struct.error")
    ELSE Ok([neg |-> FALSE, d |-> StripZeros(block)])

Uint64_to_bytes(value) == PackUnsigned(value, Uint64_sizeof)
Uint64_from_bytes(block) == UnpackUnsigned(block, Uint64_sizeof)
Uint32_to_bytes(value) == PackUnsigned(value, Uint32_sizeof)
Uint32_from_bytes(block) == UnpackUnsigned(block, Uint32_sizeof)

\* str.encode(): UTF-8 of one code point (surrogates cannot be encoded)
Utf8Char(c) ==
    IF c < 128 THEN <<c>>
    ELSE IF c < 2048 THEN <<192 + (c \div 64), 128 + (c % 64)>>
    ELSE IF c < 65536 THEN
        <<224 + (c \div 4096), 128 + ((c \div 64) % 64), 128 + (c % 64)>>
    ELSE <<240 + (c \div 262144), 128 + ((c \div 4096) % 64),
           128 + ((c \div 64) % 64), 128 + (c % 64)>>

RECURSIVE Utf8Encode(_)
Utf8Encode(s) ==
    IF s = <<>> THEN <<>> ELSE Utf8Char(Head(s)) \o Utf8Encode(Tail(s))

IsCont(b) == b >= 128 /\ b <= 191

\* bytes.decode(): strict UTF-8; acc is the text decoded so far
RECURSIVE Utf8DecodeFrom(_, _, _)
Utf8DecodeFrom(b, i, acc) ==
    IF i > Len(b) THEN Ok(acc)
    ELSE LET b0 == b[i]
             left == Len(b) - i
         IN
         IF b0 < 128 THEN Utf8DecodeFrom(b, i + 1, Append(acc, b0))
         ELSE IF b0 >= 194 /\ b0 <= 223 THEN
             IF left >= 1 /\ IsCont(b[i + 1])
             THEN Utf8DecodeFrom(b, i + 2,
                      Append(acc, (b0 - 192) * 64 + (b[i + 1] - 128)))
             ELSE Raise("UnicodeDecodeError")
         ELSE IF b0 >= 224 /\ b0 <= 239 THEN
             IF /\ left >= 2
                /\ IsCont(b[i + 1]) /\ IsCont(b[i + 2])
                /\ (b0 = 224 => b[i + 1] >= 160)
                /\ (b0 = 237 => b[i + 1] <= 159)
             THEN Utf8DecodeFrom(b, i + 3,
                      Append(acc, (b0 - 224) * 4096 + (b[i + 1] - 128) * 64
                                  + (b[i + 2] - 128)))
             ELSE Raise("UnicodeDecodeError")
         ELSE IF b0 >= 240 /\ b0 <= 244 THEN
             IF /\ left >= 3
                /\ IsCont(b[i + 1]) /\ IsCont(b[i + 2]) /\ IsCont(b[i + 3])
                /\ (b0 = 240 => b[i + 1] >= 144)
                /\ (b0 = 244 => b[i + 1] <= 143)
             THEN Utf8DecodeFrom(b, i + 4,
                      Append(acc, (b0 - 240) * 262144 + (b[i + 1] - 128) * 4096
                                  + (b[i + 2] - 128) * 64 + (b[i + 3] - 128)))
             ELSE Raise("UnicodeDecodeError")
         ELSE Raise("UnicodeDecodeError")

\* Varchar.to_bytes: b'\x00' * k is empty for k <= 0
Varchar_to_bytes(value) ==
    LET block == Utf8Encode(value)
    IN Ok(block \o Zeros(Max(0, NameLen - Len(block))))

\* Varchar.from_bytes: the whole span is decoded, padding included
Varchar_from_bytes(block) == Utf8DecodeFrom(block, 1, <<>>)

\* Bytes(n).validate
Bytes_validate(n, pv) ==
    IF BaseField_validate(pv) # "none" THEN BaseField_validate(pv)
    ELSE IF Len(pv.v) # n THEN "InvalidLengthError"
    ELSE "none"

\* two's complement of a fixed-width big-endian byte string
RECURSIVE AddOne(_)
AddOne(b) ==
    IF b = <<>> THEN <<>>
    ELSE IF b[Len(b)] < 255 THEN [b EXCEPT ![Len(b)] = @ + 1]
    ELSE Append(AddOne(SubSeq(b, 1, Len(b) - 1)), 0)

TwosComplement(b) == AddOne([i \in 1..Len(b) |-> 255 - b[i]])

\* -2^(8n-1) <= value < 2^(8n-1)
FitsSigned(value, n) ==
    \/ Len(value.d) < n
    \/ /\ Len(value.d) = n
       /\ \/ value.d[1] < 128
          \/ /\ value.neg /\ value.d[1] = 128
             /\ \A i \in 2..n : value.d[i] = 0

\* struct.pack('>b'/'>h'/'>i'/'>q', value)
PackSigned(value, n) ==
    IF ~FitsSigned(value, n) THEN Raise("struct.error")
    ELSE IF value.neg
    THEN Ok(TwosComplement(Zeros(n - Len(value.d)) \o value.d))
    ELSE Ok(Zeros(n - Len(value.d)) \o value.d)

\* struct.unpack('>b'/'>h'/'>i'/'>q', block)[0]
UnpackSigned(block, n) ==
    IF Len(block) # n THEN Raise("struct.error")
    ELSE IF block[1] < 128 THEN Ok([neg |-> FALSE, d |-> StripZeros(block)])
    ELSE Ok([neg |-> TRUE, d |-> StripZeros(TwosComplement(block))])

\* Boolean: struct.pack('?', value) packs the truth of the value, and
\* struct.unpack('?', block) gives True (which equals 1) for a non-zero byte
Boolean_to_bytes(value) == Ok(IF value = Zero THEN <<0>> ELSE <<1>>)
Boolean_from_bytes(block) ==
    IF Len(block) # 1 THEN Raise("struct.error")
    ELSE Ok(IF block[1] = 0 THEN Zero ELSE PyInt(1))

\* The field variants by kind: Varchar(NameLen), Bytes(n), UintN and IntN of
\* n bytes, Boolean; validate, sizeof, to_bytes and from_bytes of a field
Field_validate(field, pv) ==
    IF field.kind = "Varchar" THEN Varchar_validate(pv)
    ELSE IF field.kind = "Bytes" THEN Bytes_validate(field.n, pv)
    ELSE BaseField_validate(pv)

Field_sizeof(field) == field.n

Field_to_bytes(field, value) ==
    IF field.kind = "Varchar" THEN Varchar_to_bytes(value)
    ELSE IF field.kind = "Bytes" THEN Ok(value)
    ELSE IF field.kind = "Uint" THEN PackUnsigned(value, field.n)
    ELSE IF field.kind = "Int" THEN PackSigned(value, field.n)
    ELSE Boolean_to_bytes(value)

Field_from_bytes(field, block) ==
    IF field.kind = "Varchar" THEN Varchar_from_bytes(block)
    ELSE IF field.kind = "Bytes" THEN Ok(block)
    ELSE IF field.kind = "Uint" THEN UnpackUnsigned(block, field.n)
    ELSE IF field.kind = "Int" THEN UnpackSigned(block, field.n)
    ELSE Boolean_from_bytes(block)

----------------------------------------------------------------------------
(* table.py: the file as a sequence of blocks of block_size bytes *)

\* Struct.block_size for the Person schema; Table.block_size after bind
block_size == Uint64_sizeof + Varchar_sizeof + Uint32_sizeof

\* file.read(n) at position p: short or empty at the end of the file
FileRead(f, p, n) == SubSeq(f, p + 1, Min(p + n, Len(f)))

\* file.write(b) at position p: overwrites, and extends the file as needed
FileWrite(f, p, b) ==
    IF b = <<>> THEN f
    ELSE (IF p > Len(f) THEN f \o Zeros(p - Len(f)) ELSE SubSeq(f, 1, p))
         \o b \o SubSeq(f, p + Len(b) + 1, Len(f))

\* Table.size: st is the length os.fstat reports
Table_size(st) == st \div block_size

\* Table.get: the bytes returned by seek + read
Table_get(f, idx) == FileRead(f, idx * block_size, block_size)

\* Table.update: seek + write
Table_update(f, block, idx) == FileWrite(f, idx * block_size, block)

\* Table.append: the file after the write; the index returned is
\* Table_size(st)
Table_append(f, st, block) == FileWrite(f, Table_size(st) * block_size, block)

----------------------------------------------------------------------------
(* struct.py *)

\* Struct.__init__ with every field given: each assignment validates
Construct(pid, pname, page) ==
    IF BaseField_validate(pid) # "none" THEN Raise(BaseField_validate(pid))
    ELSE IF Varchar_validate(pname) # "none" THEN Raise(Varchar_validate(pname))
    ELSE IF BaseField_validate(page) # "none" THEN Raise(BaseField_validate(page))
    ELSE Ok([id |-> pid.v, name |-> pname.v, age |-> page.v])

\* Person(): every field at its default
DefaultRec == [id |-> Zero, name |-> <<>>, age |-> Zero]

\* Struct.as_bytes: the fields' to_bytes joined in schema order
as_bytes(r) ==
    LET bid == Uint64_to_bytes(r.id)
        bname == Varchar_to_bytes(r.name)
        bage == Uint32_to_bytes(r.age)
    IN IF bid.err # "none" THEN Raise(bid.err)
       ELSE IF bname.err # "none" THEN Raise(bname.err)
       ELSE IF bage.err # "none" THEN Raise(bage.err)
       ELSE Ok(bid.v \o bname.v \o bage.v)

\* block[a:b] of Python, a and b counted from 0
Slice(block, a, b) == SubSeq(block, a + 1, Min(b, Len(block)))

\* Struct.from_bytes: consecutive spans in schema order, then cls(**kwargs)
from_bytes(block) ==
    LET o1 == Uint64_sizeof
        o2 == o1 + Varchar_sizeof
        o3 == o2 + Uint32_sizeof
        vid == Uint64_from_bytes(Slice(block, 0, o1))
        vname == Varchar_from_bytes(Slice(block, o1, o2))
        vage == Uint32_from_bytes(Slice(block, o2, o3))
    IN IF vid.err # "none" THEN Raise(vid.err)
       ELSE IF vname.err # "none" THEN Raise(vname.err)
       ELSE IF vage.err # "none" THEN Raise(vage.err)
       ELSE Construct(Val(vid.v), Val(vname.v), Val(vage.v))

\* Struct.get_index_by_id with the upper limit off by one: size() + 1 passes
get_index_by_id_off_by_one(st, id) ==
    IF PyLess(Zero, id) /\ PyLeqNat(id, Table_size(st) + 1)
    THEN Ok(SmallVal(id) - 1)
    ELSE Raise("IdError")

\* Struct.get_index_by_id
get_index_by_id(st, id) ==
    IF PyLess(Zero, id) /\ PyLeqNat(id, Table_size(st))
    THEN Ok(SmallVal(id) - 1)
    ELSE Raise("IdError")

----------------------------------------------------------------------------
(* The outcome of a call and the state of the caller's generator *)

\* op: the call; err: "none" or the error raised; arg: the id or probe value
\* given (for insert: the id returned); idx: the block index the call
\* resolved or returned (-1: none); val: the record returned or yielded
Result(op, err, arg, idx, val) ==
    [op |-> op, err |-> err, arg |-> arg, idx |-> idx, val |-> val]

NoIter ==
    [pc |-> "none", kind |-> "none", from |-> 0, to |-> 0, i |-> 0,
     vf |-> Zero, vt |-> Zero]

\* person = Person(name=..., age=...)
New(pname, page) ==
    LET r == Construct(Val(Zero), pname, page)
    IN /\ rec' = IF r.err = "none" THEN r.v ELSE rec
       /\ ret' = Result("new", r.err, Zero, -1, DefaultRec)
       /\ UNCHANGED <<file, st_size, pos, it, writers>>

\* Struct.__setattr__ assigning before it validates: the value is kept also
\* when validate raises
SetAttrAssignFirst(field, pv) ==
    LET e == IF field = "name" THEN Varchar_validate(pv)
             ELSE BaseField_validate(pv)
    IN /\ rec' = [rec EXCEPT ![field] = pv.v]
       /\ ret' = Result("setattr", e, Zero, -1, DefaultRec)
       /\ UNCHANGED <<file, st_size, pos, it, writers>>

\* Struct.__setattr__: person.<field> = value
SetAttr(field, pv) ==
    LET e == IF field = "name" THEN Varchar_validate(pv)
             ELSE BaseField_validate(pv)
    IN /\ rec' = IF e = "none" THEN [rec EXCEPT ![field] = pv.v] ELSE rec
       /\ ret' = Result("setattr", e, Zero, -1, DefaultRec)
       /\ UNCHANGED <<file, st_size, pos, it, writers>>

\* Struct.insert without its rewrite: the block appended, which was encoded
\* before the id was assigned, is the one left in the file
InsertWriteNoRewrite(b1, idx, r2) ==
    /\ file' = Table_append(file, st_size, b1)
    /\ st_size' = Len(file)
    /\ pos' = idx * block_size + Len(b1)
    /\ rec' = r2
    /\ ret' = Result("insert", "none", r2.id, idx, DefaultRec)
    /\ UNCHANGED <<it, writers>>

\* the append, the id assignment and the rewrite of Struct.insert; the seek
\* of the rewrite flushes the appended block, the rewrite stays buffered
InsertWrite(b1, idx, r2) ==
    /\ file' = Table_update(Table_append(file, st_size, b1), as_bytes(r2).v, idx)
    /\ st_size' = Len(Table_append(file, st_size, b1))
    /\ pos' = idx * block_size + Len(as_bytes(r2).v)
    /\ rec' = r2
    /\ ret' = Result("insert", "none", r2.id, idx, DefaultRec)
    /\ UNCHANGED <<it, writers>>

\* Struct.insert after its id check; has_id: the check found an id
InsertChecked(has_id) ==
    IF has_id
    THEN /\ ret' = Result("insert", "IdError", rec.id, -1, DefaultRec)
         /\ UNCHANGED <<file, st_size, pos, rec, it, writers>>
    ELSE IF as_bytes(rec).err # "none"
    THEN /\ ret' = Result("insert", as_bytes(rec).err, rec.id, -1, DefaultRec)
         /\ UNCHANGED <<file, st_size, pos, rec, it, writers>>
    ELSE InsertWrite(as_bytes(rec).v, Table_size(st_size),
                     [rec EXCEPT !.id = PyInt(Table_size(st_size) + 1)])

\* Struct.insert with the id check written as "id > 0": a negative id passes
InsertIdPositive == InsertChecked(PyLess(Zero, rec.id))

\* Struct.insert
Insert == InsertChecked(rec.id # Zero)

\* Struct.insert interrupted (an exception raised from outside, such as
\* KeyboardInterrupt) after its append and before its rewrite; id_set: the
\* interruption came after "self.id = idx + 1".  The appended block stays
\* buffered in the handle.
InsertInterrupted(id_set) ==
    /\ rec.id = Zero
    /\ as_bytes(rec).err = "none"
    /\ file' = Table_append(file, st_size, as_bytes(rec).v)
    /\ st_size' = Len(file)
    /\ pos' = Table_size(st_size) * block_size + Len(as_bytes(rec).v)
    /\ rec' = IF id_set THEN [rec EXCEPT !.id = PyInt(Table_size(st_size) + 1)]
              ELSE rec
    /\ ret' = Result("insert", "KeyboardInterrupt", rec.id, Table_size(st_size),
                     DefaultRec)
    /\ UNCHANGED <<it, writers>>

\* The process ends and a new one binds the file: Table.__del__ closes the
\* handle, which flushes the buffered write, and Struct.bind opens a new one
Rebind ==
    /\ st_size' = Len(file)
    /\ pos' = 0
    /\ ret' = Result("bind", "none", Zero, -1, DefaultRec)
    /\ UNCHANGED <<file, rec, it, writers>>

\* Struct.update; the seek flushes an earlier write, the new one stays
\* buffered
Update ==
    LET i == get_index_by_id(st_size, rec.id)
        b == as_bytes(rec)
    IN IF i.err # "none"
       THEN /\ ret' = Result("update", i.err, rec.id, -1, DefaultRec)
            /\ UNCHANGED <<file, st_size, pos, rec, it, writers>>
       ELSE IF b.err # "none"
       THEN /\ ret' = Result("update", b.err, rec.id, i.v, DefaultRec)
            /\ UNCHANGED <<file, st_size, pos, rec, it, writers>>
       ELSE /\ file' = Table_update(file, b.v, i.v)
            /\ st_size' = Len(file)
            /\ pos' = i.v * block_size + Len(b.v)
            /\ ret' = Result("update", "none", rec.id, i.v, DefaultRec)
            /\ UNCHANGED <<rec, it, writers>>

\* person = Person.get(id)
Get(id) ==
    LET i == get_index_by_id(st_size, id)
        block == Table_get(file, i.v)
        r == from_bytes(block)
    IN IF i.err # "none"
       THEN /\ ret' = Result("get", i.err, id, -1, DefaultRec)
            /\ UNCHANGED <<file, st_size, pos, rec, it, writers>>
       ELSE /\ pos' = i.v * block_size + Len(block)
            /\ st_size' = Len(file)
            /\ rec' = IF r.err = "none" THEN r.v ELSE rec
            /\ ret' = Result("get", r.err, id, i.v,
                             IF r.err = "none" THEN r.v ELSE DefaultRec)
            /\ UNCHANGED <<file, it, writers>>

----------------------------------------------------------------------------
(* Direct calls of the block store, as Struct makes them *)

\* file.seek(idx * block_size): a negative position raises OSError after the
\* pending write was flushed and leaves the position where it was
SeekFails(idx) == idx < 0

\* block = Person.__table__.get(idx)
TableGet(idx) ==
    /\ st_size' = Len(file)
    /\ pos' = IF SeekFails(idx) THEN pos
              ELSE idx * block_size + Len(Table_get(file, idx))
    /\ ret' = IF SeekFails(idx)
              THEN Result("Table.get", "OSError", Zero, idx, <<>>)
              ELSE Result("Table.get", "none", Zero, idx, Table_get(file, idx))
    /\ UNCHANGED <<file, rec, it, writers>>

\* Person.__table__.update(block, idx)
TableUpdate(block, idx) ==
    /\ st_size' = Len(file)
    /\ file' = IF SeekFails(idx) THEN file ELSE Table_update(file, block, idx)
    /\ pos' = IF SeekFails(idx) THEN pos ELSE idx * block_size + Len(block)
    /\ ret' = Result("Table.update", IF SeekFails(idx) THEN "OSError" ELSE "none",
                     Zero, idx, block)
    /\ UNCHANGED <<rec, it, writers>>

\* idx = Person.__table__.append(block): size() is read before the seek
\* flushes the pending write
TableAppend(block) ==
    /\ st_size' = Len(file)
    /\ file' = Table_append(file, st_size, block)
    /\ pos' = Table_size(st_size) * block_size + Len(block)
    /\ ret' = Result("Table.append", "none", Zero, Table_size(st_size), block)
    /\ UNCHANGED <<rec, it, writers>>

----------------------------------------------------------------------------
(* Searching and iterating *)

\* the caller's get_sorted_value, here lambda person: person.age
key_of(r) == r.age

\* get_value of Struct.iter_between: get_sorted_value(cls.from_bytes(block))
get_value(block) ==
    LET r == from_bytes(block)
    IN IF r.err # "none" THEN Raise(r.err) ELSE Ok(key_of(r.v))

\* the while loop of Table.find_sorted; reads: the indices given to
\* self.get so far, in order
RECURSIVE find_sorted_loop(_, _, _, _, _)
find_sorted_loop(f, value, idx, size, reads) ==
    IF size <= 0 THEN [err |-> "none", v |-> idx, reads |-> reads]
    ELSE LET mid == idx + size \div 2
             key == get_value(Table_get(f, mid))
         IN IF key.err # "none"
            THEN [err |-> key.err, v |-> idx, reads |-> Append(reads, mid)]
            ELSE IF PyLess(key.v, value)
            THEN find_sorted_loop(f, value, idx + size \div 2 + 1,
                                  size \div 2 + (size % 2) - 1,
                                  Append(reads, mid))
            ELSE find_sorted_loop(f, value, idx, size \div 2,
                                  Append(reads, mid))

\* Table.find_sorted searching one block too few: the last block is never
\* compared
find_sorted_short(f, st, value) ==
    find_sorted_loop(f, value, 0, Max(0, Table_size(st) - 1), <<>>)

\* Table.find_sorted searching one block too many: the index size() can be
\* read
find_sorted_long(f, st, value) ==
    find_sorted_loop(f, value, 0, Table_size(st) + 1, <<>>)

\* Table.find_sorted
find_sorted(f, st, value) ==
    find_sorted_loop(f, value, 0, Table_size(st), <<>>)

\* the file position after the reads of a find_sorted: after the last block
\* read
PosAfter(f, p, reads) ==
    IF reads = <<>> THEN p
    ELSE reads[Len(reads)] * block_size + Len(Table_get(f, reads[Len(reads)]))

\* the length os.fstat reports after the reads of a find_sorted: the seek of
\* each get flushes a pending write
SizeAfter(f, st, reads) == IF reads = <<>> THEN st ELSE Len(f)

\* Person.__table__.find_sorted(value, get_value); the outcome keeps the
\* indices read
FindSortedCall(value) ==
    LET r == find_sorted(file, st_size, value)
    IN /\ pos' = PosAfter(file, pos, r.reads)
       /\ st_size' = SizeAfter(file, st_size, r.reads)
       /\ ret' = Result("find_sorted", r.err, value,
                        IF r.err = "none" THEN r.v ELSE -1, r.reads)
       /\ UNCHANGED <<file, rec, it, writers>>

\* Person.all(): creates the generator; nothing runs before the first next()
AllStart ==
    /\ it' = [NoIter EXCEPT !.pc = "created", !.kind = "all"]
    /\ ret' = Result("all", "none", Zero, -1, DefaultRec)
    /\ UNCHANGED <<file, st_size, pos, rec, writers>>

\* Person.iter_between(value_from, value_to, key_of): creates the generator
BetweenStart(value_from, value_to) ==
    /\ it' = [NoIter EXCEPT !.pc = "created", !.kind = "between",
                            !.vf = value_from, !.vt = value_to]
    /\ ret' = Result("iter_between", "none", Zero, -1, DefaultRec)
    /\ UNCHANGED <<file, st_size, pos, rec, writers>>

\* one find_sorted run with the file position at p and the reported length
\* st: its outcome, and the position and the reported length it leaves
SearchFrom(f, st, p, value) ==
    LET r == find_sorted(f, st, value)
    IN [err |-> r.err, v |-> r.v, p |-> PosAfter(f, p, r.reads),
        st |-> SizeAfter(f, st, r.reads)]

\* Table.iter_between without its seek: the reads start where the second
\* search left the file position
BetweenRangeNoSeek(a, b) ==
    IF a.err # "none" THEN [err |-> a.err, from |-> 0, to |-> 0, p |-> a.p]
    ELSE IF b.err # "none" THEN [err |-> b.err, from |-> 0, to |-> 0, p |-> b.p]
    ELSE [err |-> "none", from |-> a.v, to |-> b.v, p |-> b.p]

\* the first next() of Struct.iter_between: idx_from (a) and idx_to (b),
\* then the seek of Table.iter_between
BetweenRange(a, b) ==
    IF a.err # "none" THEN [err |-> a.err, from |-> 0, to |-> 0, p |-> a.p]
    ELSE IF b.err # "none" THEN [err |-> b.err, from |-> 0, to |-> 0, p |-> b.p]
    ELSE [err |-> "none", from |-> a.v, to |-> b.v, p |-> a.v * block_size]

BetweenFrom(a) == BetweenRange(a, SearchFrom(file, a.st, a.p, it.vt))

\* The range [from, to) and the seek of Table.iter / Table.iter_between,
\* run by the first next(): all() takes size() then, iter_between() runs its
\* two searches then
IterBegin ==
    IF it.kind = "all"
    THEN [err |-> "none", from |-> 0, to |-> Table_size(st_size), p |-> 0]
    ELSE BetweenFrom(SearchFrom(file, st_size, pos, it.vf))

\* One item of the generator: Table.iter_between reads one block at the
\* current file position p, Struct.all / Struct.iter_between decodes it (r);
\* StopIteration once to - from items were read
IterItem(from, to, p, block, r) ==
    IF from + it.i >= to
    THEN /\ pos' = p
         /\ it' = [it EXCEPT !.pc = "done", !.from = from, !.to = to]
         /\ ret' = Result("next", "StopIteration", Zero, -1, DefaultRec)
    ELSE IF r.err # "none"
    THEN /\ pos' = p + Len(block)
         /\ it' = [it EXCEPT !.pc = "done", !.from = from, !.to = to]
         /\ ret' = Result("next", r.err, Zero, from + it.i, DefaultRec)
    ELSE /\ pos' = p + Len(block)
         /\ it' = [it EXCEPT !.pc = "running", !.from = from, !.to = to,
                             !.i = it.i + 1]
         /\ ret' = Result("next", "none", Zero, from + it.i, r.v)

IterRead(from, to, p, block) == IterItem(from, to, p, block, from_bytes(block))

\* g: the range and the position the generator continues from
IterStep(g) ==
    IF g.err # "none"
    THEN /\ pos' = g.p
         /\ it' = [it EXCEPT !.pc = "done"]
         /\ ret' = Result("next", g.err, Zero, -1, DefaultRec)
    ELSE IterRead(g.from, g.to, g.p, FileRead(file, g.p, block_size))

\* next() on the generator of Struct.all / Struct.iter_between; the first
\* next() seeks and a later one reads unless the range is exhausted, and
\* either flushes a pending write
IterNext ==
    /\ it.pc \in {"created", "running"}
    /\ IterStep(IF it.pc = "created" THEN IterBegin
                ELSE [err |-> "none", from |-> it.from, to |-> it.to,
                      p |-> pos])
    /\ st_size' = IF it.pc = "running" /\ it.from + it.i >= it.to
                  THEN st_size ELSE Len(file)
    /\ UNCHANGED <<file, rec, writers>>

----------------------------------------------------------------------------
(* The record-layer specification: one caller, one bound store that starts
   empty *)

\* 'alex'
Alex == <<97, 108, 101, 120>>
\* NameLen characters of four UTF-8 bytes each (U+1F600)
Wide == [i \in 1..NameLen |-> 128512]
\* NameLen + 1 characters
TooLong == [i \in 1..(NameLen + 1) |-> 97]
\* 2^32: one more than a Uint32 holds, and an id beyond any store size
TooBig == [neg |-> FALSE, d |-> <<1, 0, 0, 0, 0>>]

\* person = Person(name=..., age=...) as the caller writes it
NewInputs ==
    {<<Val(Alex), Val(PyInt(32))>>, <<Val(Wide), Val(PyInt(32))>>,
     <<Val(TooLong), Val(PyInt(32))>>}
\* person.<field> = value as the caller writes it
SetInputs ==
    ({"name"} \X {Absent, Val(Wide)})
    \cup ({"age"} \X {Absent, Val(PyInt(33)), Val(TooBig)})
    \cup ({"id"} \X {Val(PyNeg(1)), Val(TooBig)})
\* Person.get(id) as the caller writes it
IdInputs == {PyNeg(1)} \cup {PyInt(n) : n \in 0..(MaxBlocks + 1)}

\* tests.py: the caller starts with Person(name='alex', age=32) on a store
\* that bind() created empty
NoWriters == <<>>

Init ==
    /\ file = <<>>
    /\ st_size = 0
    /\ writers = NoWriters
    /\ pos = 0
    /\ rec = [id |-> Zero, name |-> Alex, age |-> PyInt(32)]
    /\ ret = Result("bind", "none", Zero, -1, DefaultRec)
    /\ it = NoIter

Next ==
    \/ \E n \in NewInputs : New(n[1], n[2])
    \/ \E s \in SetInputs : SetAttr(s[1], s[2])
    \/ (rec.id # Zero \/ Table_size(st_size) < MaxBlocks) /\ Insert
    \/ Update
    \/ \E id \in IdInputs : Get(id)

Spec == Init /\ [][Next]_vars

----------------------------------------------------------------------------
(* Iteration interleaved with the other calls of the same caller *)

NextIter ==
    \/ New(Val(Alex), Val(PyInt(32)))
    \/ SetAttr("age", Val(PyInt(33)))
    \/ (rec.id # Zero \/ Table_size(st_size) < MaxBlocks) /\ Insert
    \/ Update
    \/ \E n \in 1..MaxBlocks : Get(PyInt(n))
    \/ AllStart
    \/ IterNext

SpecIter == Init /\ [][NextIter]_vars

----------------------------------------------------------------------------
(* Inserts that are interrupted between their append and their rewrite, in
   a process that goes on or ends *)

NextCrash ==
    \/ New(Val(Alex), Val(PyInt(32)))
    \/ SetAttr("age", Val(PyInt(33)))
    \/ (rec.id # Zero \/ Table_size(st_size) < MaxBlocks) /\ Insert
    \/ Table_size(st_size) < MaxBlocks /\ \E id_set \in BOOLEAN :
           InsertInterrupted(id_set)
    \/ Update
    \/ \E n \in 1..(MaxBlocks + 1) : Get(PyInt(n))
    \/ Rebind

SpecCrash == Init /\ [][NextCrash]_vars

----------------------------------------------------------------------------
(* The field codecs one by one: a value is validated, encoded and decoded
   again, next to the construction and mutation of Person records *)

\* field.validate(value); block = field.to_bytes(value);
\* field.from_bytes(block): the outcome keeps the stage reached
FieldCall(field, pv) ==
    LET e == Field_validate(field, pv)
        enc == Field_to_bytes(field, pv.v)
        dec == Field_from_bytes(field, enc.v)
    IN /\ ret' =
            IF e # "none"
            THEN Result("field", e, pv, -1,
                        [field |-> field, stage |-> "validate",
                         enc |-> <<>>, dec |-> <<>>])
            ELSE IF enc.err # "none"
            THEN Result("field", enc.err, pv, -1,
                        [field |-> field, stage |-> "to_bytes",
                         enc |-> <<>>, dec |-> <<>>])
            ELSE IF dec.err # "none"
            THEN Result("field", dec.err, pv, -1,
                        [field |-> field, stage |-> "from_bytes",
                         enc |-> enc.v, dec |-> <<>>])
            ELSE Result("field", "none", pv, -1,
                        [field |-> field, stage |-> "done",
                         enc |-> enc.v, dec |-> dec.v])
       /\ UNCHANGED <<file, st_size, pos, rec, it, writers>>

\* the widths of the integer fields: Uint8/Int8 .. Uint64/Int64
IntWidths == {1, 2, 4, 8}

\* integers at the limits of a field of n bytes: 2^(8n-1) - 1, 2^(8n-1),
\* 2^(8n) - 1, 2^(8n), -2^(8n-1), -2^(8n-1) - 1
Limits(n) ==
    {[neg |-> FALSE, d |-> <<127>> \o [i \in 1..(n - 1) |-> 255]],
     [neg |-> FALSE, d |-> <<128>> \o Zeros(n - 1)],
     [neg |-> FALSE, d |-> [i \in 1..n |-> 255]],
     [neg |-> FALSE, d |-> <<1>> \o Zeros(n)],
     [neg |-> TRUE, d |-> <<128>> \o Zeros(n - 1)],
     [neg |-> TRUE, d |-> IF n = 1 THEN <<129>>
                          ELSE <<128>> \o Zeros(n - 2) \o <<1>>]}

IntInputs ==
    {Zero, PyInt(1), PyNeg(1), PyInt(32)} \cup UNION {Limits(n) : n \in IntWidths}

\* every field with the values given to it: None, and values of its type
FieldInputs ==
    ({[kind |-> k, n |-> n] : k \in {"Uint", "Int"}, n \in IntWidths}
        \X ({Absent} \cup {Val(v) : v \in IntInputs}))
    \cup ({[kind |-> "Boolean", n |-> 1]} \X {Absent, Val(Zero), Val(PyInt(1))})
    \cup ({[kind |-> "Bytes", n |-> 2]}
            \X {Absent, Val(<<>>), Val(<<0>>), Val(<<0, 255>>), Val(<<1, 2, 3>>)})
    \cup ({[kind |-> "Varchar", n |-> NameLen]}
            \X {Absent, Val(<<>>), Val(Alex), Val(Wide), Val(TooLong)})

NextFields ==
    \/ \E n \in NewInputs : New(n[1], n[2])
    \/ \E s \in SetInputs : SetAttr(s[1], s[2])
    \/ \E c \in FieldInputs : FieldCall(c[1], c[2])

SpecFields == Init /\ [][NextFields]_vars

----------------------------------------------------------------------------
(* Defining a schema: class <name>(Struct) with a body of attributes.  attrs
   is the class __dict__: a function from the attribute names of the body to
   their values, a field with its default or a value that is no field *)

\* Struct.__init_subclass__
init_subclass(attrs) ==
    IF "id" \notin DOMAIN attrs THEN "NoFieldError" ELSE "none"

\* class Schema(Struct): <attrs>
DefineSchema(attrs) ==
    /\ ret' = Result("define", init_subclass(attrs), Zero, -1, attrs)
    /\ UNCHANGED <<file, st_size, pos, rec, it, writers>>

\* Uint64(default=0), Uint64(default=7), Uint32(default=0),
\* Varchar(32, default=""), and the plain value 5
AttrInputs ==
    {[kind |-> "Uint", n |-> 8, default |-> Zero],
     [kind |-> "Uint", n |-> 8, default |-> PyInt(7)],
     [kind |-> "Uint", n |-> 4, default |-> Zero],
     [kind |-> "Varchar", n |-> NameLen, default |-> <<>>],
     [kind |-> "no field", n |-> 0, default |-> PyInt(5)]}

SchemaInputs == UNION {[names -> AttrInputs] : names \in SUBSET {"id", "name", "age"}}

NextSchema == \E attrs \in SchemaInputs : DefineSchema(attrs)

SpecSchema == Init /\ [][NextSchema]_vars

----------------------------------------------------------------------------
(* The block store called directly, with indices inside and outside
   [0, size()) *)

\* the blocks handed to the store: Person(id=1, name='alex', age=32 / 33)
TableBlocks ==
    {as_bytes([id |-> PyInt(1), name |-> Alex, age |-> PyInt(a)]).v :
        a \in {32, 33}}

IdxInputs == (0 - 1)..MaxIdx

NextTable ==
    \/ \E idx \in IdxInputs : TableGet(idx)
    \/ \E block \in TableBlocks, idx \in IdxInputs : TableUpdate(block, idx)
    \/ Table_size(st_size) <= MaxIdx /\ \E block \in TableBlocks : TableAppend(block)

SpecTable == Init /\ [][NextTable]_vars

----------------------------------------------------------------------------
(* Searches and range queries over a store that is not written meanwhile:
   the store holds Person(age=k).insert() for a drawn sequence of keys k,
   sorted or not.  The caller runs its direct searches first and consumes a
   range query to its end before the next one (SpecIter has the calls made
   between two items of a lazy sequence). *)

KeySeqs == UNION {[1..n -> 1..MaxKey] : n \in 0..MaxN}

RECURSIVE StoreOf(_, _)
StoreOf(keys, n) ==
    IF n = 0 THEN <<>>
    ELSE StoreOf(keys, n - 1)
         \o as_bytes([id |-> PyInt(n), name |-> <<>>, age |-> PyInt(keys[n])]).v

Probes == {PyInt(v) : v \in 0..(MaxKey + 1)}

InitSearch ==
    /\ \E keys \in KeySeqs : file = StoreOf(keys, Len(keys))
    /\ st_size = Len(file)
    /\ writers = NoWriters
    /\ pos = Len(file)
    /\ rec = DefaultRec
    /\ ret = Result("bind", "none", Zero, -1, DefaultRec)
    /\ it = NoIter

NextSearch ==
    \/ it.pc = "none" /\ \E v \in Probes : FindSortedCall(v)
    \/ it.pc # "running" /\ \E vf \in Probes, vt \in Probes : BetweenStart(vf, vt)
    \/ IterNext

SpecSearch == InitSearch /\ [][NextSearch]_vars

----------------------------------------------------------------------------
(* Concurrent writers: two processes that bound the same file, each with its
   own Table (its own handle and buffer), each running one insert().  file is
   the content on disk, which is what os.fstat and the other process see;
   writers[t] is process t: where it is in Struct.insert, the index its
   append read from size(), its record, and the write its handle buffers. *)

Writers == {1, 2}

NoBuf == [p |-> 0 - 1, b |-> <<>>]

\* the file after the handle flushed its buffered write
Flush(f, buf) == IF buf.p < 0 THEN f ELSE FileWrite(f, buf.p, buf.b)

\* idx = self.size() of Table.append, after the id check and as_bytes() of
\* Struct.insert
WriterSize(t) ==
    /\ writers[t].pc = "begin"
    /\ writers[t].rec.id = Zero
    /\ writers' = [writers EXCEPT ![t].pc = "sized",
                                  ![t].idx = Table_size(st_size)]
    /\ UNCHANGED <<file, st_size, pos, rec, ret, it>>

\* seek and write of Table.append at the end of the file as it is now, not
\* at idx * block_size
WriterAppendAtEnd(t) ==
    /\ writers[t].pc = "sized"
    /\ writers' = [writers EXCEPT
                       ![t].pc = "appended",
                       ![t].buf = [p |-> st_size,
                                   b |-> as_bytes(writers[t].rec).v]]
    /\ UNCHANGED <<file, st_size, pos, rec, ret, it>>

\* seek and write of Table.append: the block stays in the handle's buffer
WriterAppend(t) ==
    /\ writers[t].pc = "sized"
    /\ writers' = [writers EXCEPT
                       ![t].pc = "appended",
                       ![t].buf = [p |-> writers[t].idx * block_size,
                                   b |-> as_bytes(writers[t].rec).v]]
    /\ UNCHANGED <<file, st_size, pos, rec, ret, it>>

\* self.id = idx + 1
WriterSetId(t) ==
    /\ writers[t].pc = "appended"
    /\ writers' = [writers EXCEPT ![t].pc = "idset",
                                  ![t].rec.id = PyInt(writers[t].idx + 1)]
    /\ UNCHANGED <<file, st_size, pos, rec, ret, it>>

\* Table.update(self.as_bytes(), idx): its seek flushes the appended block
\* to the file, its write stays in the buffer
WriterRewrite(t) ==
    /\ writers[t].pc = "idset"
    /\ file' = Flush(file, writers[t].buf)
    /\ st_size' = Len(file')
    /\ writers' = [writers EXCEPT
                       ![t].pc = "rewritten",
                       ![t].buf = [p |-> writers[t].idx * block_size,
                                   b |-> as_bytes(writers[t].rec).v]]
    /\ UNCHANGED <<pos, rec, ret, it>>

\* Table.__del__: the handle is closed, which flushes the rewrite
WriterClose(t) ==
    /\ writers[t].pc = "rewritten"
    /\ file' = Flush(file, writers[t].buf)
    /\ st_size' = Len(file')
    /\ writers' = [writers EXCEPT ![t].pc = "done", ![t].buf = NoBuf]
    /\ UNCHANGED <<pos, rec, ret, it>>

\* the store holds n records inserted before; writer t inserts
\* Person(name=chr(96 + t), age=32)
InitWriters ==
    /\ \E n \in 0..(MaxBlocks - 1) : file = StoreOf([i \in 1..n |-> 1], n)
    /\ st_size = Len(file)
    /\ pos = 0
    /\ rec = DefaultRec
    /\ ret = Result("bind", "none", Zero, -1, DefaultRec)
    /\ it = NoIter
    /\ writers = [t \in Writers |->
                     [pc |-> "begin", idx |-> 0, buf |-> NoBuf,
                      rec |-> [id |-> Zero, name |-> <<96 + t>>,
                               age |-> PyInt(32)]]]

NextWriters ==
    \E t \in Writers :
        \/ WriterSize(t)
        \/ WriterAppend(t)
        \/ WriterSetId(t)
        \/ WriterRewrite(t)
        \/ WriterClose(t)

SpecWriters == InitWriters /\ [][NextWriters]_vars

----------------------------------------------------------------------------
(* Properties *)

\* the id stored in block i of the file
StoredId(f, i) == Uint64_from_bytes(Slice(Table_get(f, i), 0, Uint64_sizeof))

\* the key of block i, as find_sorted sees it
KeyAt(f, i) == get_value(Table_get(f, i))

\* the number of whole blocks of the content f
NumBlocks(f) == Len(f) \div block_size

\* the blocks of f are non-decreasing under key_of
Sorted(f) ==
    /\ \A i \in 0..(NumBlocks(f) - 1) : KeyAt(f, i).err = "none"
    /\ \A i \in 0..(NumBlocks(f) - 1) : \A j \in i..(NumBlocks(f) - 1) :
           ~PyLess(KeyAt(f, j).v, KeyAt(f, i).v)

\* the lower bound by a linear scan: the smallest index whose key is >= v,
\* or the number of blocks
LowerBound(f, v) ==
    LET hits == {i \in 0..(NumBlocks(f) - 1) : ~PyLess(KeyAt(f, i).v, v)}
    IN IF hits = {} THEN NumBlocks(f)
       ELSE CHOOSE i \in hits : \A j \in hits : i <= j

\* C1: insert() on a record with id == 0 succeeds, assigns and returns
\* id = (store size before the call) + 1, and increases the store size by
\* exactly 1.
C1_InsertAssignsNextId ==
    [][(ret'.op = "insert" /\ rec.id = Zero) =>
          /\ ret'.err = "none"
          /\ ret'.arg = PyInt(Table_size(st_size) + 1)
          /\ rec'.id = ret'.arg
          /\ Table_size(st_size') = Table_size(st_size) + 1]_vars

\* C2: get(id) returns a record equal field by field to the state last
\* written at that id by insert or update; here the get follows the write
\* directly, as in tests.py (insert, then get, then name == "alex").
C2_GetReturnsWritten ==
    [][(/\ ret.op \in {"insert", "update"} /\ ret.err = "none"
        /\ ret'.op = "get" /\ ret'.arg = rec.id) =>
          (ret'.err = "none" /\ rec' = rec)]_vars

\* C3: the block at every index i in 0..size()-1 holds stored id i+1.
C3_StoredIdsDense ==
    \A i \in 0..(Table_size(st_size) - 1) : StoredId(file, i) = Ok(PyInt(i + 1))

\* C4: insert() on a record whose id != 0 always fails with IdError and
\* writes nothing: store size, every block and the record's fields are
\* unchanged.
C4_InsertWithIdFails ==
    [][(ret'.op = "insert" /\ rec.id # Zero) =>
          (ret'.err = "IdError" /\ file' = file /\ rec' = rec)]_vars

C4_Witness ==
    /\ ret.op = "insert" /\ ret.err = "IdError"
    /\ ret.arg = rec.id /\ rec.id # Zero
    /\ Table_size(st_size) >= 1

\* C5: an id is valid iff 1 <= id <= size(): get(id) and update() with an
\* id outside that range fail with IdError and leave the file unchanged; an
\* id inside the range resolves to block index id - 1.
C5_IdValidity ==
    [][(ret'.op \in {"get", "update"}) =>
          IF PyLess(Zero, ret'.arg) /\ PyLeqNat(ret'.arg, Table_size(st_size))
          THEN ret'.err # "IdError" /\ PyInt(ret'.idx + 1) = ret'.arg
          ELSE ret'.err = "IdError" /\ file' = file]_vars

C5_Witness ==
    /\ ret.op = "get" /\ ret.err = "IdError"
    /\ Table_size(st_size) >= 1
    /\ ret.arg = PyInt(Table_size(st_size) + 1)

\* C6: update() on a record with valid id k never changes the store size
\* and leaves every block other than the one at index k-1 unchanged; the
\* block at index k-1 becomes the record's current encoding.
C6_UpdateFrame ==
    [][(ret'.op = "update" /\ ret'.err = "none") =>
          /\ Table_size(st_size') = Table_size(st_size)
          /\ \A i \in 0..(Table_size(st_size) - 1) :
                 i # ret'.idx => Table_get(file', i) = Table_get(file, i)
          /\ Table_get(file', ret'.idx) = as_bytes(rec).v]_vars

\* C7: on a store sorted under key_of, find_sorted(v, key_of) returns the
\* lower bound of v, as a linear scan finds it.
C7_FindSortedLowerBound ==
    (ret.op = "find_sorted" /\ Sorted(file)) =>
        (ret.err = "none" /\ ret.idx = LowerBound(file, ret.arg))

C7_Witness ==
    /\ ret.op = "find_sorted" /\ Sorted(file)
    /\ Table_size(st_size) >= 3
    /\ ret.idx > 0 /\ ret.idx < Table_size(st_size) - 1
    /\ KeyAt(file, 0).v # KeyAt(file, Table_size(st_size) - 1).v

\* C8: on a store sorted under key_of, between(value_from, value_to, key_of)
\* yields the records at the indices lower_bound(value_from) up to, not
\* including, lower_bound(value_to), in index order and each once, then
\* stops; these are exactly the records r with value_from <= key_of(r) <
\* value_to, and none when value_from >= value_to.
C8_BetweenYieldsRange ==
    [][(ret'.op = "next" /\ it.kind = "between" /\ Sorted(file)) =>
          LET lo == LowerBound(file, it.vf)
              hi == LowerBound(file, it.vt)
          IN /\ IF lo + it.i < hi
                THEN /\ ret'.err = "none"
                     /\ ret'.idx = lo + it.i
                     /\ Ok(ret'.val) = from_bytes(Table_get(file, lo + it.i))
                ELSE ret'.err = "StopIteration"
             /\ {i \in 0..(Table_size(st_size) - 1) :
                    /\ ~PyLess(KeyAt(file, i).v, it.vf)
                    /\ PyLess(KeyAt(file, i).v, it.vt)}
                = {i \in 0..(Table_size(st_size) - 1) : lo <= i /\ i < hi}
             /\ (~PyLess(it.vf, it.vt) => ret'.err = "StopIteration")]_vars

C8_Witness ==
    /\ it.kind = "between" /\ it.pc = "done" /\ Sorted(file)
    /\ ret.op = "next" /\ ret.err = "StopIteration"
    /\ it.i = 2 /\ it.from = 1 /\ it.to = 3

\* C9: all() yields the decoded blocks of the store in index order, each
\* block as it is in the store at the moment it is read, also when the
\* caller performs get, update or insert between two items.
C9_AllYieldsInOrder ==
    [][(ret'.op = "next" /\ it.kind = "all") =>
          /\ ret'.err \in {"none", "StopIteration"}
          /\ ret'.err = "none" =>
                 Ok(ret'.val) = from_bytes(Table_get(file, it.i))]_vars

\* C10: the backing file length is an exact multiple of the block width,
\* and size() * block width equals the file length.
C10_WholeBlocks ==
    /\ st_size % block_size = 0
    /\ Table_size(st_size) * block_size = st_size

\* C11: on the block store, get(idx) and update(block, idx) with idx outside
\* [0, size()) fail: get returns no block, update writes nothing, so the file
\* and its length are unchanged and the file never grows.
C11_OutOfRangeFails ==
    [][(/\ ret'.op \in {"Table.get", "Table.update"}
        /\ (ret'.idx < 0 \/ ret'.idx >= Table_size(st_size))) =>
          (ret'.err # "none" /\ file' = file /\ Len(file') = Len(file))]_vars

PadEq(a, b) ==
    /\ Len(a) >= Len(b)
    /\ SubSeq(a, 1, Len(b)) = b
    /\ \A i \in (Len(b) + 1)..Len(a) : a[i] = 0

\* C13: for every field and every value it validates and encodes,
\* decode(encode(v)) == v, for text up to trailing 0x00 padding; and
\* from_bytes(as_bytes(r)) equals r field by field up to text padding.
C13_RoundTrip ==
    /\ (ret.op = "field" /\ ret.val.stage \in {"from_bytes", "done"}) =>
           /\ ret.err = "none"
           /\ IF ret.val.field.kind = "Varchar"
              THEN PadEq(ret.val.dec, ret.arg.v)
              ELSE ret.val.dec = ret.arg.v
    /\ as_bytes(rec).err = "none" =>
           /\ from_bytes(as_bytes(rec).v).err = "none"
           /\ from_bytes(as_bytes(rec).v).v.id = rec.id
           /\ PadEq(from_bytes(as_bytes(rec).v).v.name, rec.name)
           /\ from_bytes(as_bytes(rec).v).v.age = rec.age

\* C14: for every field and every value its validate accepts, to_bytes
\* returns exactly sizeof() bytes, so as_bytes() of a record has length
\* block_size(); for text this covers every string of at most n characters.
C14_EncodeWidth ==
    /\ (ret.op = "field" /\ ret.val.stage \in {"from_bytes", "done"}) =>
           Len(ret.val.enc) = Field_sizeof(ret.val.field)
    /\ as_bytes(rec).err = "none" => Len(as_bytes(rec).v) = block_size

\* C15: defining a schema is rejected with a schema-definition error unless
\* it declares a field named id that is Uint64 with default 0.
C15_SchemaNeedsUint64Id ==
    ret.op = "define" =>
        IF /\ "id" \in DOMAIN ret.val
           /\ ret.val["id"] = [kind |-> "Uint", n |-> 8, default |-> Zero]
        THEN ret.err = "none"
        ELSE ret.err = "NoFieldError"

\* C16 as stated: after an insert() interrupted between its append and its
\* rewrite, the appended block keeps stored id 0 and its slot from then on,
\* and for every later insert the correspondence (returned id == previous
\* size + 1, stored id == block index + 1) is broken.
C16_OrphanBreaksLaterInserts ==
    [][/\ (ret.op = "insert" /\ ret.err = "KeyboardInterrupt") =>
              StoredId(file', ret.idx) = Ok(Zero)
       /\ (/\ \E i \in 0..(Table_size(st_size) - 1) : StoredId(file, i) = Ok(Zero)
           /\ ret'.op = "insert" /\ ret'.err = "none") =>
              ~(/\ ret'.arg = PyInt(Table_size(st_size) + 1)
                /\ StoredId(file', ret'.idx) = Ok(PyInt(ret'.idx + 1)))]_vars

\* C16 amended: the interrupted insert() leaves a block with stored id 0 at
\* the index it read as size(), and every later insert that succeeds still
\* returns (the size() it read) + 1 and leaves that id stored at block index
\* id - 1, also when it overwrites the block with id 0.
C16_LaterInsertsKeepIds ==
    [][/\ (ret'.op = "insert" /\ ret'.err = "KeyboardInterrupt") =>
              /\ ret'.idx = Table_size(st_size)
              /\ StoredId(file', ret'.idx) = Ok(Zero)
       /\ (ret'.op = "insert" /\ ret'.err = "none") =>
              /\ ret'.idx = Table_size(st_size)
              /\ ret'.arg = PyInt(ret'.idx + 1)
              /\ rec'.id = ret'.arg
              /\ StoredId(file', ret'.idx) = Ok(ret'.arg)]_vars

C16_Witness ==
    /\ ret.op = "insert" /\ ret.err = "none" /\ ret.idx >= 1
    /\ \E i \in 0..(ret.idx - 1) : StoredId(file, i) = Ok(Zero)

\* writer t's record is the block at index i of the file
StoredAt(t, i) == Table_get(file, i) = as_bytes(writers[t].rec).v

\* C17: the steps of two insert() calls on the same file interleave freely;
\* whenever both have completed after reading the same size(), both records
\* were assigned the same id, the store grew by one block only, and one of
\* the two records is stored nowhere.  When they read different sizes, both
\* records are stored under their own ids.
C17_SameSizeLosesRecord ==
    \A t \in Writers : \A u \in Writers \ {t} :
        (writers[t].pc = "done" /\ writers[u].pc = "done") =>
            IF writers[t].idx = writers[u].idx
            THEN /\ writers[t].rec.id = writers[u].rec.id
                 /\ NumBlocks(file) = writers[t].idx + 1
                 /\ StoredAt(t, writers[t].idx) # StoredAt(u, writers[u].idx)
                 /\ \E l \in {t, u} :
                        \A i \in 0..(NumBlocks(file) - 1) : ~StoredAt(l, i)
            ELSE /\ writers[t].rec.id # writers[u].rec.id
                 /\ StoredAt(t, writers[t].idx) /\ StoredAt(u, writers[u].idx)

C17_Witness ==
    /\ \A t \in Writers : writers[t].pc = "done"
    /\ writers[1].rec.id = writers[2].rec.id
    /\ NumBlocks(file) = writers[1].idx + 1
    /\ writers[1].idx >= 1
    /\ \A i \in 0..(NumBlocks(file) - 1) : ~StoredAt(1, i)

\* the record holds an integer outside the range of its field: id outside
\* 0 .. 2^64 - 1 or age outside 0 .. 2^32 - 1
OutOfRange(r) ==
    \/ r.id.neg \/ Len(r.id.d) > Uint64_sizeof
    \/ r.age.neg \/ Len(r.age.d) > Uint32_sizeof

\* C18: insert() or update() of a record holding a validated integer that
\* does not fit its field raises before any write: the file, its size and the
\* record are unchanged (the id stays 0 for insert); the error is the one of
\* the encoding when the id check of the call passes.
C18_UnencodableWritesNothing ==
    [][(ret'.op \in {"insert", "update"} /\ OutOfRange(rec)) =>
          /\ ret'.err \in {"struct.error", "IdError"}
          /\ file' = file /\ st_size' = st_size /\ rec' = rec
          /\ (ret'.op = "insert" /\ rec.id = Zero) => ret'.err = "struct.error"
          /\ (/\ ret'.op = "update" /\ PyLess(Zero, rec.id)
              /\ PyLeqNat(rec.id, Table_size(st_size))) =>
                 ret'.err = "struct.error"]_vars

C18_Witness ==
    /\ ret.op = "update" /\ ret.err = "struct.error"
    /\ rec.age = TooBig /\ rec.id = PyInt(1)
    /\ Table_size(st_size) >= 1

\* C19: on any store, sorted under key_of or not, and for any probe value,
\* find_sorted returns (it raises nothing and its loop ends within size()
\* reads), every index it reads is in [0, size()), no index is read twice,
\* and the index it returns is in [0, size()].
C19_FindSortedInBounds ==
    ret.op = "find_sorted" =>
        /\ ret.err = "none"
        /\ ret.idx \in 0..Table_size(st_size)
        /\ Len(ret.val) <= Table_size(st_size)
        /\ \A k \in 1..Len(ret.val) :
               ret.val[k] \in 0..(Table_size(st_size) - 1)
        /\ \A k \in 1..Len(ret.val) : \A l \in 1..Len(ret.val) :
               ret.val[k] = ret.val[l] => k = l

C19_Witness ==
    /\ ret.op = "find_sorted" /\ ~Sorted(file)
    /\ Table_size(st_size) >= 3
    /\ Len(ret.val) >= 2
    /\ ret.idx # LowerBound(file, ret.arg)

====
